---- MODULE Spec2Model ----
(***************************************************************************)
(* Sudoku core of shudo/: the backtracking solver (extend-resolve/solver.py *)
(* and the shuffled variant of extend/data_gen.py), the puzzle generator    *)
(* (extend/data_gen.py), the constrained decoder (extend/model.py) and the  *)
(* prediction pipeline (extend-resolve/test.py).                            *)
(*                                                                          *)
(* Boards are 9x9, indexed board[r][c] with r, c in 0..8 as in the source.  *)
(* The recursion of solve_backtrack is unfolded into an explicit stack of   *)
(* frames; one action is one loop iteration, one call or one return.        *)
(***************************************************************************)
EXTENDS Integers, Sequences, FiniteSets, TLC

VARIABLES
    op,             \* which entry point runs: "solve", "generate", "predict"
    pc,             \* position of the running entry point
    input,          \* the grid the caller handed in (never written by the model)
    board,          \* the grid solve_backtrack mutates in place
    stack,          \* frames of solve_backtrack, innermost last
    sres,           \* value returned by the call that has just returned
    retEntry,       \* history: the grid at the entry of the call that has just returned
    returned,       \* value handed back to the caller of the entry point
    full,           \* generate_pair: the grid generate_full_board returned
    puzzle,         \* remove_cells: the copy being blanked
    positions,      \* remove_cells: the shuffled list of the 81 coordinates
    pos_i,          \* remove_cells: index of the next element of positions
    count,          \* remove_cells: cells blanked so far
    removal_count,  \* remove_cells: the requested number of blanks
    use_backtrack,  \* predict_with_model: overwrite the clues and run the solver
    src_tokens,     \* the puzzle as 81 tokens, positions 0..80
    t,              \* generate_with_constraints: the position being decided
    ys,             \* the decided sequence, led by the token 0 that starts it
    givens_row,     \* [r][d]: digit d is a clue of row r (likewise col, box)
    givens_col,
    givens_box,
    pred_row,       \* [r][d]: digit d was committed in row r (likewise col, box)
    pred_col,
    pred_box,
    pred_board,     \* the committed tokens, positions 0..80
    caller_board,   \* the cells of the list object the caller passed in
    row_ids,        \* identities of the row objects of each grid in use
    batch,          \* two calls of generate_with_constraints on batches, side by side
    ckpt            \* train.py: the checkpoint directory and the last save

solverVars == <<board, stack, sres, retEntry>>
removeVars == <<full, puzzle, positions, pos_i, count, removal_count>>
decodeFrame == <<src_tokens, t, ys, givens_row, givens_col, givens_box,
                 pred_row, pred_col, pred_box, pred_board>>
decodeVars == <<use_backtrack, src_tokens, t, ys, givens_row, givens_col, givens_box,
                pred_row, pred_col, pred_box, pred_board>>

heapVars == <<caller_board, row_ids>>

vars == <<op, pc, input, board, stack, sres, retEntry, returned,
          full, puzzle, positions, pos_i, count, removal_count,
          use_backtrack, src_tokens, t, ys, givens_row, givens_col, givens_box,
          pred_row, pred_col, pred_box, pred_board, caller_board, row_ids, batch, ckpt>>

(***************************************************************************)
(* Bounds of the model.                                                     *)
(***************************************************************************)
MaxHoles == 4       \* cells blanked in an input grid
ShuffleDepth == 1   \* calls at a smaller recursion depth draw a shuffle outcome
MaxRemoval == 2     \* largest small removal_count tried
MaxHigh == 1        \* digits the logit source scores above the rest in one step
BatchSize == 2      \* puzzles in one batch of the decoder
MaxEpoch == 2       \* largest epoch number of a save
MaxStep == 10       \* largest global_step of a save
MaxSaves == 2       \* calls of save_checkpoint in one run of the model

(***************************************************************************)
(* Grid model.                                                              *)
(***************************************************************************)
Idx    == 0..8
Digits == 1..9
None   == <<>>

Cells == Idx \X Idx

ZeroBoard == [r \in Idx |-> [c \in Idx |-> 0]]

(***************************************************************************)
(* Row objects.  A grid is a Python list of nine row lists; two grids that  *)
(* hold the same row object see each other's writes.  row_ids gives, for    *)
(* each grid in use, the identities of its nine rows (0: no object yet).    *)
(***************************************************************************)
NoRows == [r \in Idx |-> 0]

\* The rows of the k-th grid built with a list comprehension.
NewRows(k) == [r \in Idx |-> 9 * k + r + 1]

\* puzzle = board: the rows of the source are used as they are.
copy_rows_shared(src_ids, k) == src_ids

\* [row[:] for row in board]: every row is a new object.
copy_rows(src_ids, k) == NewRows(k)

\* The decoded board written into the caller's own rows.
work_rows_in_place(caller_ids, k) == caller_ids

\* tokens_to_board builds out = [[0 ...] ...]: new rows, none of the caller's.
work_rows(caller_ids, k) == NewRows(k)

\* The cells of grid g (rows g_ids) once the grid w (rows w_ids) was written:
\* a row of g that is also a row of w shows the cells of w.
Sync(g, g_ids, w, w_ids) ==
    [r \in Idx |->
        IF g_ids[r] # 0 /\ \E r2 \in Idx : w_ids[r2] = g_ids[r]
        THEN w[CHOOSE r2 \in Idx : w_ids[r2] = g_ids[r]]
        ELSE g[r]]

\* find_empty with the loops exchanged: for c, then for r.
find_empty_by_column(b) ==
    IF \A r \in Idx, c \in Idx : b[r][c] # 0
    THEN None
    ELSE LET c == CHOOSE c0 \in Idx :
                    /\ \E r0 \in Idx : b[r0][c0] = 0
                    /\ \A c1 \in 0..(c0 - 1), r1 \in Idx : b[r1][c1] # 0
             r == CHOOSE r0 \in Idx :
                    /\ b[r0][c] = 0
                    /\ \A r1 \in 0..(r0 - 1) : b[r1][c] # 0
         IN  <<r, c>>

\* find_empty: scan rows, then columns, return the first cell holding 0.
find_empty(b) ==
    IF \A r \in Idx, c \in Idx : b[r][c] # 0
    THEN None
    ELSE LET r == CHOOSE r0 \in Idx :
                    /\ \E c0 \in Idx : b[r0][c0] = 0
                    /\ \A r1 \in 0..(r0 - 1), c1 \in Idx : b[r1][c1] # 0
             c == CHOOSE c0 \in Idx :
                    /\ b[r][c0] = 0
                    /\ \A c1 \in 0..(c0 - 1) : b[r][c1] # 0
         IN  <<r, c>>

\* is_valid with the block start taken as col // 3 instead of (col // 3) * 3.
is_valid_box_start(b, row, col, n) ==
    IF \E x \in Idx : b[row][x] = n THEN FALSE
    ELSE IF \E x \in Idx : b[x][col] = n THEN FALSE
    ELSE LET br == (row \div 3) * 3
             bc == col \div 3
         IN  ~ \E r \in br..(br + 2), c \in bc..(bc + 2) : b[r][c] = n

\* is_valid with the cell (row, col) itself left out of the three scans.
is_valid_skip_self(b, row, col, n) ==
    IF \E x \in Idx \ {col} : b[row][x] = n THEN FALSE
    ELSE IF \E x \in Idx \ {row} : b[x][col] = n THEN FALSE
    ELSE LET br == (row \div 3) * 3
             bc == (col \div 3) * 3
         IN  ~ \E r \in br..(br + 2), c \in bc..(bc + 2) :
                 <<r, c>> # <<row, col>> /\ b[r][c] = n

\* is_valid without the column scan.
is_valid_no_column(b, row, col, n) ==
    IF \E x \in Idx : b[row][x] = n THEN FALSE
    ELSE LET br == (row \div 3) * 3
             bc == (col \div 3) * 3
         IN  ~ \E r \in br..(br + 2), c \in bc..(bc + 2) : b[r][c] = n

\* is_valid: row scan, column scan, then the 3x3 block starting at (br, bc).
is_valid(b, row, col, n) ==
    IF \E x \in Idx : b[row][x] = n THEN FALSE
    ELSE IF \E x \in Idx : b[x][col] = n THEN FALSE
    ELSE LET br == (row \div 3) * 3
             bc == (col \div 3) * 3
         IN  ~ \E r \in br..(br + 2), c \in bc..(bc + 2) : b[r][c] = n

\* solved: no empty cell.
solved(b) == find_empty(b) = None

(***************************************************************************)
(* Input grids: a solved grid with some cells blanked and possibly one      *)
(* clue replaced (which can make the clues conflict or the puzzle           *)
(* unsolvable).                                                             *)
(***************************************************************************)
BaseRows ==
    << <<5,3,4,6,7,8,9,1,2>>,
       <<6,7,2,1,9,5,3,4,8>>,
       <<1,9,8,3,4,2,5,6,7>>,
       <<8,5,9,7,6,1,4,2,3>>,
       <<4,2,6,8,5,3,7,9,1>>,
       <<7,1,3,9,2,4,8,5,6>>,
       <<9,6,1,5,3,7,2,8,4>>,
       <<2,8,7,4,1,9,6,3,5>>,
       <<3,4,5,2,8,6,1,7,9>> >>

BaseGrid == [r \in Idx |-> [c \in Idx |-> BaseRows[r + 1][c + 1]]]

HolePool == { <<0,3>>, <<0,4>>, <<0,7>>, <<1,3>>, <<3,3>>, <<3,4>> }

EditPool == { {}, { <<0,1,5>> }, { <<0,3,1>> } }

Punch(H, E) ==
    [r \in Idx |-> [c \in Idx |->
        IF \E e \in E : e[1] = r /\ e[2] = c
        THEN (CHOOSE e \in E : e[1] = r /\ e[2] = c)[3]
        ELSE IF <<r, c>> \in H THEN 0 ELSE BaseGrid[r][c]]]

InputGrids ==
    { Punch(H, E) : H \in { H0 \in SUBSET HolePool : Cardinality(H0) <= MaxHoles },
                    E \in EditPool }

(***************************************************************************)
(* solve_backtrack (solver.py: digits in ascending order).                  *)
(***************************************************************************)
Top == stack[Len(stack)]
Pop == SubSeq(stack, 1, Len(stack) - 1)

\* The list a frame iterates.  solver.py iterates range(1, 10).  data_gen.py
\* iterates nums = list(range(1, 10)) after random.shuffle(nums): the outcome
\* of the shuffle is drawn from DigitOrders in the calls at recursion depth
\* below ShuffleDepth, and is the ascending list in the deeper calls.
Ascending == <<1, 2, 3, 4, 5, 6, 7, 8, 9>>

\* Nine draws with repetition in place of a shuffle: lists that miss a digit.
DigitOrders_with_repetition ==
    { Ascending, <<9, 8, 7, 6, 5, 4, 3, 2, 2>>, <<5, 5, 9, 3, 7, 2, 8, 4, 6>> }

DigitOrders ==
    { Ascending, <<9, 8, 7, 6, 5, 4, 3, 2, 1>>, <<5, 1, 9, 3, 7, 2, 8, 4, 6>> }

\* op "generate": generate_full_board calls data_gen.solve_backtrack on the
\* empty grid; op "shuffled": data_gen.solve_backtrack is called on a grid.
Shuffled(depth) == op \in {"generate", "shuffled"} /\ depth < ShuffleDepth

ShuffleOutcomes(depth) == IF Shuffled(depth) THEN DigitOrders ELSE {Ascending}

\* The loop started over from the head of the list after every return.
NextIdx_restart(b, r, c, nums, i) ==
    LET valid == { j \in 1..9 : is_valid(b, r, c, nums[j]) }
    IN  { j \in valid : \A m \in valid : j <= m }

\* The for-loop of a frame, from its position i (list entries visited) to the
\* next entry it places.  The iterations in between find is_valid false and
\* write nothing, so they are taken together with the placing iteration.
\* The set holds the position of that entry, and is empty when the loop runs
\* to the end of the list.
NextIdx(b, r, c, nums, i) ==
    LET valid == { j \in (i + 1)..9 : is_valid(b, r, c, nums[j]) }
    IN  { j \in valid : \A m \in valid : j <= m }

\* Entry of a call: no empty cell, return True.
SolveCallFull ==
    /\ pc = "call"
    /\ find_empty(board) = None
    /\ sres' = TRUE
    /\ retEntry' = board
    /\ pc' = "ret"
    /\ UNCHANGED <<op, ckpt, batch, input, board, stack, returned>>
    /\ UNCHANGED removeVars
    /\ UNCHANGED decodeVars
    /\ UNCHANGED heapVars

\* Entry of a call: an empty cell (r, c) exists, start the loop over digits.
SolveCallEmpty ==
    /\ pc = "call"
    /\ find_empty(board) # None
    /\ \E e \in {find_empty(board)}, nums \in ShuffleOutcomes(Len(stack)) :
         stack' = Append(stack, [r |-> e[1], c |-> e[2], nums |-> nums, i |-> 0,
                                 entry |-> board])
    /\ pc' = "loop"
    /\ UNCHANGED <<op, ckpt, batch, input, board, sres, retEntry, returned>>
    /\ UNCHANGED removeVars
    /\ UNCHANGED decodeVars
    /\ UNCHANGED heapVars

\* board[c][r] = n: the digit written to the mirrored cell.
place_swapped(b, r, c, n) == [b EXCEPT ![c][r] = n]

\* board[r][c] = n.
place(b, r, c, n) == [b EXCEPT ![r][c] = n]

\* The loop reaches a valid digit n: board[r][c] = n, then the recursive call.
SolvePlace ==
    /\ pc = "loop"
    /\ \E j \in NextIdx(board, Top.r, Top.c, Top.nums, Top.i) :
         /\ board' = place(board, Top.r, Top.c, Top.nums[j])
         /\ stack' = [stack EXCEPT ![Len(stack)].i = j]
    /\ pc' = "call"
    /\ UNCHANGED <<op, ckpt, batch, input, sres, retEntry, returned>>
    /\ UNCHANGED removeVars
    /\ UNCHANGED decodeVars
    /\ caller_board' = Sync(caller_board, row_ids.caller, board', row_ids.work)
    /\ UNCHANGED row_ids

\* The loop ends without reaching a valid digit: return False.
SolveExhausted ==
    /\ pc = "loop"
    /\ NextIdx(board, Top.r, Top.c, Top.nums, Top.i) = {}
    /\ sres' = FALSE
    /\ retEntry' = Top.entry
    /\ stack' = Pop
    /\ pc' = "ret"
    /\ UNCHANGED <<op, ckpt, batch, input, board, returned>>
    /\ UNCHANGED removeVars
    /\ UNCHANGED decodeVars
    /\ UNCHANGED heapVars

\* The recursive call returned True: return True.
SolveRetTrue ==
    /\ pc = "ret"
    /\ stack # <<>>
    /\ sres = TRUE
    /\ retEntry' = Top.entry
    /\ stack' = Pop
    /\ UNCHANGED <<op, ckpt, batch, pc, input, board, sres, returned>>
    /\ UNCHANGED removeVars
    /\ UNCHANGED decodeVars
    /\ UNCHANGED heapVars

\* The reset after a failed recursive call left out.
undo_missing(b, r, c) == b

\* board[r][c] = 0 after a failed recursive call.
undo(b, r, c) == [b EXCEPT ![r][c] = 0]

\* The recursive call returned False: board[r][c] = 0, next iteration.
SolveRetFalse ==
    /\ pc = "ret"
    /\ stack # <<>>
    /\ sres = FALSE
    /\ board' = undo(board, Top.r, Top.c)
    /\ pc' = "loop"
    /\ UNCHANGED <<op, ckpt, batch, input, stack, sres, retEntry, returned>>
    /\ UNCHANGED removeVars
    /\ UNCHANGED decodeVars
    /\ caller_board' = Sync(caller_board, row_ids.caller, board', row_ids.work)
    /\ UNCHANGED row_ids

\* The outermost call of a plain solve returned to its caller.
SolveFinish ==
    /\ op = "solve"
    /\ pc = "ret"
    /\ stack = <<>>
    /\ returned' = [kind |-> "bool", value |-> sres]
    /\ pc' = "done"
    /\ UNCHANGED <<op, ckpt, batch, input, board, stack, sres, retEntry>>
    /\ UNCHANGED removeVars
    /\ UNCHANGED decodeVars
    /\ UNCHANGED heapVars

\* data_gen.solve_backtrack(board) called on its own has returned.
ShuffledFinish ==
    /\ op = "shuffled"
    /\ pc = "ret"
    /\ stack = <<>>
    /\ returned' = [kind |-> "bool", value |-> sres]
    /\ pc' = "done"
    /\ UNCHANGED <<op, ckpt, batch, input, board, stack, sres, retEntry>>
    /\ UNCHANGED removeVars
    /\ UNCHANGED decodeVars
    /\ UNCHANGED heapVars

\* solve_backtrack of solver.py as a function of the grid: the value
\* returned and the grid left in place.  solve_from is the loop
\* for n in range(1, 10) from the digit n on.
RECURSIVE solve_rec(_)
RECURSIVE solve_from(_, _, _)
solve_rec(b) ==
    IF find_empty(b) = None THEN [ok |-> TRUE, board |-> b]
    ELSE solve_from(b, find_empty(b), 1)

solve_from(b, e, n) ==
    IF n > 9 THEN [ok |-> FALSE, board |-> b]
    ELSE IF is_valid(b, e[1], e[2], n)
         THEN LET res == solve_rec(place(b, e[1], e[2], n))
              IN  IF res.ok THEN res ELSE solve_from(b, e, n + 1)
         ELSE solve_from(b, e, n + 1)

(***************************************************************************)
(* Puzzle generator (data_gen.py).                                          *)
(***************************************************************************)
\* Outcomes of random.shuffle(positions): i |-> cell number (a*i + b) mod 81,
\* a permutation of the 81 coordinates for every a prime to 3.
ShuffleStrides == { <<1, 0>>, <<80, 80>>, <<2, 40>> }

PositionOrder(a, b) ==
    [i \in 1..81 |-> LET j == (a * (i - 1) + b) % 81 IN <<j \div 9, j % 9>>]

PositionOrders == { PositionOrder(s[1], s[2]) : s \in ShuffleStrides }

RemovalCounts == (-1..MaxRemoval) \cup {81, 82}

\* row[:] for every row: a new grid with the same cells.
CopyBoard(b) == [r \in Idx |-> [c \in Idx |-> b[r][c]]]

\* generate_full_board returns board whatever solve_backtrack returned;
\* generate_pair then enters remove_cells(full, removal_count): the copy, the
\* shuffled positions, count = 0.
GenerateFullReturn ==
    /\ op = "generate"
    /\ pc = "ret"
    /\ stack = <<>>
    /\ full' = board
    /\ puzzle' = CopyBoard(board)
    /\ positions' \in PositionOrders
    /\ removal_count' \in RemovalCounts
    /\ pos_i' = 1
    /\ count' = 0
    /\ pc' = "remove"
    /\ UNCHANGED <<op, ckpt, batch, input, returned>>
    /\ row_ids' = [row_ids EXCEPT !.full = row_ids.work,
                                  !.puzzle = copy_rows(row_ids.work, 1)]
    /\ UNCHANGED caller_board
    /\ UNCHANGED solverVars
    /\ UNCHANGED decodeVars

\* The break test one iteration late.
loop_break_late(cnt, k) == cnt > k

\* if count >= removal_count: break
loop_break(cnt, k) == cnt >= k

\* One iteration of the loop over positions that does not break.
RemoveStep ==
    /\ pc = "remove"
    /\ pos_i <= 81
    /\ ~ loop_break(count, removal_count)
    /\ LET r == positions[pos_i][1]
           c == positions[pos_i][2]
       IN  IF puzzle[r][c] # 0
           THEN /\ puzzle' = [puzzle EXCEPT ![r][c] = 0]
                /\ count' = count + 1
           ELSE UNCHANGED <<puzzle, count>>
    /\ pos_i' = pos_i + 1
    /\ full' = Sync(full, row_ids.full, puzzle', row_ids.puzzle)
    /\ board' = Sync(board, row_ids.work, puzzle', row_ids.puzzle)
    /\ UNCHANGED <<op, ckpt, batch, pc, input, returned, positions, removal_count>>
    /\ UNCHANGED <<stack, sres, retEntry>>
    /\ UNCHANGED heapVars
    /\ UNCHANGED decodeVars

\* The loop ends (break, or positions exhausted): remove_cells returns puzzle
\* and generate_pair returns (puzzle, solution) with solution a copy of full.
RemoveReturn ==
    /\ pc = "remove"
    /\ (pos_i > 81 \/ loop_break(count, removal_count))
    /\ returned' = [kind |-> "pair", puzzle |-> puzzle, solution |-> CopyBoard(full)]
    /\ pc' = "done"
    /\ UNCHANGED <<op, ckpt, batch, input>>
    /\ UNCHANGED solverVars
    /\ UNCHANGED removeVars
    /\ UNCHANGED decodeVars
    /\ row_ids' = [row_ids EXCEPT !.solution = copy_rows(row_ids.full, 2)]
    /\ UNCHANGED caller_board

(***************************************************************************)
(* Constrained decoder (model.py) and predict_with_model (test.py).         *)
(***************************************************************************)
Tokens == 0..9
NegInf == -1        \* float('-inf'): below every score of the logit source

\* board_to_tokens: append board[r][c] row by row.
board_to_tokens(b) == [i \in 0..80 |-> b[i \div 9][i % 9]]

\* out[c][r] in place of out[r][c]: the grid comes back transposed.
tokens_to_board_transposed(tokens) == [r \in Idx |-> [c \in Idx |-> tokens[c * 9 + r]]]

\* tokens_to_board: out[r][c] = tokens[idx], idx counting up row by row.
tokens_to_board(tokens) == [r \in Idx |-> [c \in Idx |-> tokens[r * 9 + c]]]

\* _idx_to_rc
\* r = idx % 9, c = idx // 9: the positions walked column by column.
idx_to_rc_by_column(idx) == <<idx % 9, idx \div 9>>

idx_to_rc(idx) == <<idx \div 9, idx % 9>>

NoDigits == [u \in Idx |-> [d \in Tokens |-> FALSE]]

\* The one-hot tables of the clues, as the triple loop of
\* generate_with_constraints fills them.
GivensRow(gv) == [r \in Idx |-> [d \in Tokens |-> d > 0 /\ \E c \in Idx : gv[r][c] = d]]
GivensCol(gv) == [c \in Idx |-> [d \in Tokens |-> d > 0 /\ \E r \in Idx : gv[r][c] = d]]

\* box_idx = (c // 3) * 3 + (r // 3): the boxes numbered column by column.
GivensBox_transposed(gv) ==
    [b \in Idx |-> [d \in Tokens |->
        d > 0 /\ \E r \in Idx, c \in Idx : (c \div 3) * 3 + (r \div 3) = b /\ gv[r][c] = d]]

GivensBox(gv) ==
    [b \in Idx |-> [d \in Tokens |->
        d > 0 /\ \E r \in Idx, c \in Idx : (r \div 3) * 3 + (c \div 3) = b /\ gv[r][c] = d]]

\* The branch for clues left out: a clue cell is masked like a blank cell.
allowed_digits_ignore_given(g_row, g_col, g_box, p_row, p_col, p_box, r, c, given_val) ==
    LET b == (r \div 3) * 3 + (c \div 3)
        used == [d \in Tokens |->
                   /\ d \in 1..9
                   /\ \/ g_row[r][d] \/ p_row[r][d]
                      \/ g_col[c][d] \/ p_col[c][d]
                      \/ g_box[b][d] \/ p_box[b][d]]
    IN  [d \in Tokens |-> IF d \in 1..9 /\ ~used[d] THEN 1 ELSE 0]

\* The column tables left out of the used digits.
allowed_digits_no_column(g_row, g_col, g_box, p_row, p_col, p_box, r, c, given_val) ==
    IF given_val > 0
    THEN [d \in Tokens |-> IF d = given_val THEN 1 ELSE 0]
    ELSE LET b == (r \div 3) * 3 + (c \div 3)
             used == [d \in Tokens |->
                        /\ d \in 1..9
                        /\ \/ g_row[r][d] \/ p_row[r][d]
                           \/ g_box[b][d] \/ p_box[b][d]]
         IN  [d \in Tokens |-> IF d \in 1..9 /\ ~ used[d] THEN 1 ELSE 0]

\* _allowed_digits_for_cell: the 0/1 mask over the tokens 0..9.
allowed_digits_for_cell(g_row, g_col, g_box, p_row, p_col, p_box, r, c, given_val) ==
    IF given_val > 0
    THEN [d \in Tokens |-> IF d = given_val THEN 1 ELSE 0]
    ELSE LET b == (r \div 3) * 3 + (c \div 3)
             used == [d \in Tokens |->
                        /\ d \in 1..9
                        /\ \/ g_row[r][d] \/ p_row[r][d]
                           \/ g_col[c][d] \/ p_col[c][d]
                           \/ g_box[b][d] \/ p_box[b][d]]
         IN  [d \in Tokens |-> IF d \in 1..9 /\ ~ used[d] THEN 1 ELSE 0]

\* masked_fill(masks < 0.5, -inf)
masked_fill(logits, masks) ==
    [d \in Tokens |-> IF 2 * masks[d] < 1 THEN NegInf ELSE logits[d]]

\* argmax returning the last index holding the maximum.
argmax_last(v) ==
    LET vals == { v[j] : j \in Tokens }
        hi == CHOOSE x \in vals : \A y \in vals : y <= x
    IN  CHOOSE i \in Tokens : v[i] = hi /\ \A j \in (i + 1)..9 : v[j] # hi

\* torch.argmax: the first index holding the maximum.
argmax(v) ==
    LET vals == { v[j] : j \in Tokens }
        hi == CHOOSE x \in vals : \A y \in vals : y <= x
    IN  CHOOSE i \in Tokens : v[i] = hi /\ \A j \in 0..(i - 1) : v[j] # hi

\* Score vectors of the logit source: at most MaxHigh tokens score 1, the
\* others 0.
RECURSIVE TokenSets(_)
TokenSets(k) ==
    IF k = 0 THEN {{}}
    ELSE LET P == TokenSets(k - 1)
         IN  P \cup { S \cup {d} : S \in P, d \in Tokens }

ScoreVectors ==
    { [d \in Tokens |-> IF d \in S THEN 1 ELSE 0] : S \in TokenSets(MaxHigh) }

\* predict_with_model up to the first decoding step: the puzzle is flattened
\* and generate_with_constraints builds its tables.
PredictStart ==
    /\ op = "predict"
    /\ pc = "start"
    /\ src_tokens' = board_to_tokens(caller_board)
    /\ LET given_vals == tokens_to_board(board_to_tokens(caller_board))
       IN  /\ givens_row' = GivensRow(given_vals)
           /\ givens_col' = GivensCol(given_vals)
           /\ givens_box' = GivensBox(given_vals)
    /\ pred_row' = NoDigits
    /\ pred_col' = NoDigits
    /\ pred_box' = NoDigits
    /\ pred_board' = [i \in 0..80 |-> 0]
    /\ ys' = <<0>>
    /\ t' = 0
    /\ pc' = "decode"
    /\ UNCHANGED <<op, ckpt, batch, input, returned, use_backtrack>>
    /\ UNCHANGED solverVars
    /\ UNCHANGED removeVars
    /\ UNCHANGED heapVars

\* The token one decoding step commits at (r, c) for the scores step_logits.
\* The mask of the cell (r, c) under the tables of the current state.
masks_at(r, c) ==
    allowed_digits_for_cell(givens_row, givens_col, givens_box,
                            pred_row, pred_col, pred_box, r, c, src_tokens[r * 9 + c])

\* masked_fill, then argmax.
pick(step_logits, masks) == argmax(masked_fill(step_logits, masks))

next_token(step_logits, r, c) == pick(step_logits, masks_at(r, c))

\* The table entry set for every token, 0 included.
record_always(table, u, v) == [table EXCEPT ![u][v] = TRUE]

\* The tables of the committed digits never written.
record_never(table, u, v) == table

\* if v > 0: table[b, u, v] = True.
record(table, u, v) == IF v > 0 THEN [table EXCEPT ![u][v] = TRUE] ELSE table

\* One iteration of the loop over t: scores, mask, argmax, tables, ys.
DecodeStep ==
    /\ pc = "decode"
    /\ t < 81
    /\ \E r \in {idx_to_rc(t)[1]}, c \in {idx_to_rc(t)[2]} :
         \E masks \in {masks_at(r, c)} :
         \E v \in { pick(step_logits, masks) : step_logits \in ScoreVectors } :
         \E box_idx \in {(r \div 3) * 3 + (c \div 3)} :
             /\ pred_board' = [pred_board EXCEPT ![t] = v]
             /\ pred_row' = record(pred_row, r, v)
             /\ pred_col' = record(pred_col, c, v)
             /\ pred_box' = record(pred_box, box_idx, v)
             /\ ys' = Append(ys, v)
    /\ t' = t + 1
    /\ UNCHANGED <<op, ckpt, batch, pc, input, returned, use_backtrack, src_tokens,
                   givens_row, givens_col, givens_box>>
    /\ UNCHANGED solverVars
    /\ UNCHANGED removeVars
    /\ UNCHANGED heapVars

\* ys[:, 1:] as tokens at positions 0..80.
PredTokens == [i \in 0..80 |-> ys[i + 2]]

\* The clues of the puzzle written over the decoded board.
Reassert(pb, b) == [r \in Idx |-> [c \in Idx |-> IF b[r][c] # 0 THEN b[r][c] ELSE pb[r][c]]]

\* The caller's use_backtrack is read only once the decoding is over; the
\* model draws it there.
\* use_backtrack: clues are written back and solve_backtrack(pred_board) is called.
PredictRepair ==
    /\ op = "predict"
    /\ pc = "decode"
    /\ t = 81
    /\ use_backtrack' = TRUE
    /\ board' = Reassert(tokens_to_board(PredTokens), caller_board)
    /\ pc' = "call"
    /\ UNCHANGED <<op, ckpt, batch, input, returned, stack, sres, retEntry>>
    /\ UNCHANGED removeVars
    /\ UNCHANGED decodeFrame
    /\ row_ids' = [row_ids EXCEPT !.work = work_rows(row_ids.caller, 1)]
    /\ caller_board' = Sync(caller_board, row_ids.caller, board', row_ids'.work)

\* not use_backtrack: the decoded board is returned as it is.
PredictRaw ==
    /\ op = "predict"
    /\ pc = "decode"
    /\ t = 81
    /\ use_backtrack' = FALSE
    /\ board' = tokens_to_board(PredTokens)
    /\ returned' = [kind |-> "board", board |-> tokens_to_board(PredTokens)]
    /\ pc' = "done"
    /\ UNCHANGED <<op, ckpt, batch, input, stack, sres, retEntry>>
    /\ UNCHANGED removeVars
    /\ UNCHANGED decodeFrame
    /\ row_ids' = [row_ids EXCEPT !.work = work_rows(row_ids.caller, 1)]
    /\ caller_board' = Sync(caller_board, row_ids.caller, board', row_ids'.work)

\* solve_backtrack returned; its value is dropped and pred_board is returned.
PredictReturn ==
    /\ op = "predict"
    /\ pc = "ret"
    /\ stack = <<>>
    /\ returned' = [kind |-> "board", board |-> board]
    /\ pc' = "done"
    /\ UNCHANGED <<op, ckpt, batch, input>>
    /\ UNCHANGED solverVars
    /\ UNCHANGED removeVars
    /\ UNCHANGED decodeVars
    /\ UNCHANGED heapVars

(***************************************************************************)
(* generate_with_constraints on a batch of B puzzles (model.py).  Two calls *)
(* X and Y run side by side on batches that hold the same puzzle at         *)
(* element 0 and receive the same scores for element 0; the puzzles and     *)
(* the scores of the other elements are free in each call.                  *)
(***************************************************************************)
Batch == 0..(BatchSize - 1)

\* The digits 3 and 6 of the base grid exchanged: another solved grid.
RelabelledGrid ==
    [r \in Idx |-> [c \in Idx |->
        IF BaseGrid[r][c] = 3 THEN 6
        ELSE IF BaseGrid[r][c] = 6 THEN 3 ELSE BaseGrid[r][c]]]

\* Puzzles of element 0, and puzzles of the other elements.
BatchPuzzles == { Punch({<<0,3>>, <<0,4>>, <<3,3>>, <<3,4>>}, {}), Punch({<<0,7>>}, {}) }
OtherPuzzles == { Punch({<<1,3>>}, {}), RelabelledGrid }

NoBatch == [t |-> 0, X |-> <<>>, Y |-> <<>>]

NoBatchDigits == [b \in Batch |-> NoDigits]

\* The tensors of one call before the tables of the clues are filled.
batch_zeros(src) ==
    [src |-> src,
     givens_row |-> NoBatchDigits, givens_col |-> NoBatchDigits, givens_box |-> NoBatchDigits,
     pred_row |-> NoBatchDigits, pred_col |-> NoBatchDigits, pred_box |-> NoBatchDigits,
     pred_board |-> [b \in Batch |-> [i \in 0..80 |-> 0]],
     ys |-> [b \in Batch |-> <<>>]]

\* The loop over b, r, c that fills the tables of the clues; ys starts as a
\* column of zeros.
batch_givens(run) ==
    [run EXCEPT
        !.givens_row = [b \in Batch |-> GivensRow(tokens_to_board(run.src[b]))],
        !.givens_col = [b \in Batch |-> GivensCol(tokens_to_board(run.src[b]))],
        !.givens_box = [b \in Batch |-> GivensBox(tokens_to_board(run.src[b]))],
        !.ys = [b \in Batch |-> <<0>>]]

\* masks[b] = _allowed_digits_for_cell(givens_row[b], ..., pred_box[b], r, c, gval)
batch_masks(run, r, c) ==
    [b \in Batch |->
        allowed_digits_for_cell(run.givens_row[b], run.givens_col[b], run.givens_box[b],
                                run.pred_row[b], run.pred_col[b], run.pred_box[b],
                                r, c, run.src[b][r * 9 + c])]

\* table[:, u, v] = True: the entry set in the table of every element.
batch_record_all(tabs, b, u, v) == [e \in Batch |-> record(tabs[e], u, v)]

\* if v > 0: table[b, u, v] = True.
batch_record(tabs, b, u, v) == [tabs EXCEPT ![b] = record(tabs[b], u, v)]

\* for b in range(B), from element b on.
RECURSIVE batch_update(_, _, _, _)
batch_update(tabs, next, u, b) ==
    IF b = BatchSize THEN tabs
    ELSE batch_update(batch_record(tabs, b, u, next[b]), next, u, b + 1)

\* The second half of one iteration of the loop over t: pred_board and the
\* tables take the tokens next, ys grows by one column.
batch_commit(run, tt, next) ==
    LET r == idx_to_rc(tt)[1]
        c == idx_to_rc(tt)[2]
        box_idx == (r \div 3) * 3 + (c \div 3)
    IN  [run EXCEPT
            !.pred_board = [b \in Batch |-> [run.pred_board[b] EXCEPT ![tt] = next[b]]],
            !.pred_row = batch_update(run.pred_row, next, r, 0),
            !.pred_col = batch_update(run.pred_col, next, c, 0),
            !.pred_box = batch_update(run.pred_box, next, box_idx, 0),
            !.ys = [b \in Batch |-> Append(run.ys[b], next[b])]]

BatchStart ==
    /\ op = "batch"
    /\ pc = "batch_start"
    /\ batch' = [batch EXCEPT !.X = batch_givens(batch.X), !.Y = batch_givens(batch.Y)]
    /\ pc' = "batch_decode"
    /\ UNCHANGED <<op, ckpt, input, returned>>
    /\ UNCHANGED solverVars
    /\ UNCHANGED removeVars
    /\ UNCHANGED decodeVars
    /\ UNCHANGED heapVars

\* One iteration of the loop over t in both calls.  Element 0 receives the
\* same scores in X and in Y; the other elements of a call receive scores of
\* their own.
BatchStep ==
    /\ op = "batch"
    /\ pc = "batch_decode"
    /\ batch.t < 81
    /\ \E r \in {idx_to_rc(batch.t)[1]}, c \in {idx_to_rc(batch.t)[2]} :
         \E mX \in {batch_masks(batch.X, r, c)}, mY \in {batch_masks(batch.Y, r, c)} :
         \E n0 \in { <<pick(sc, mX[0]), pick(sc, mY[0])>> : sc \in ScoreVectors } :
         \E nX \in { [b \in Batch |-> IF b = 0 THEN n0[1] ELSE pick(sc, mX[b])] :
                        sc \in ScoreVectors },
            nY \in { [b \in Batch |-> IF b = 0 THEN n0[2] ELSE pick(sc, mY[b])] :
                        sc \in ScoreVectors } :
             batch' = [t |-> batch.t + 1,
                       X |-> batch_commit(batch.X, batch.t, nX),
                       Y |-> batch_commit(batch.Y, batch.t, nY)]
    /\ UNCHANGED <<op, ckpt, pc, input, returned>>
    /\ UNCHANGED solverVars
    /\ UNCHANGED removeVars
    /\ UNCHANGED decodeVars
    /\ UNCHANGED heapVars

\* return ys[:, 1:]
BatchReturn ==
    /\ op = "batch"
    /\ pc = "batch_decode"
    /\ batch.t = 81
    /\ returned' = [kind |-> "batch",
                    X |-> [b \in Batch |-> [i \in 0..80 |-> batch.X.ys[b][i + 2]]],
                    Y |-> [b \in Batch |-> [i \in 0..80 |-> batch.Y.ys[b][i + 2]]]]
    /\ pc' = "batch_done"
    /\ UNCHANGED <<op, ckpt, input, batch>>
    /\ UNCHANGED solverVars
    /\ UNCHANGED removeVars
    /\ UNCHANGED decodeVars
    /\ UNCHANGED heapVars

(***************************************************************************)
(* Checkpoints of the training script (train.py).  A file name is the list  *)
(* of the code points of its characters, so that list.sort() of the names   *)
(* is the order of Python strings.                                          *)
(***************************************************************************)
\* str(n) for n >= 0: the decimal digits, '0' being the code point 48.
RECURSIVE Decimal(_)
Decimal(n) == IF n < 10 THEN <<48 + n>> ELSE Decimal(n \div 10) \o <<48 + (n % 10)>>

\* f'{n:03d}': zeros in front up to three characters, none cut off.
Pad3(n) ==
    LET d == Decimal(n)
    IN  IF Len(d) >= 3 THEN d ELSE [i \in 1..(3 - Len(d)) |-> 48] \o d

\* f'epoch{epoch:03d}_step{global_step}.ckpt'
ckpt_name(epoch, global_step) ==
    <<101, 112, 111, 99, 104>> \o Pad3(epoch) \o <<95, 115, 116, 101, 112>>
        \o Decimal(global_step) \o <<46, 99, 107, 112, 116>>

\* a < b for Python strings: the first differing code point decides, and a
\* proper prefix comes first.
StrLess(a, b) ==
    \/ \E i \in 1..Len(a) :
          /\ i <= Len(b)
          /\ a[i] < b[i]
          /\ \A j \in 1..(i - 1) : a[j] = b[j]
    \/ /\ Len(a) < Len(b)
       /\ \A j \in 1..Len(a) : a[j] = b[j]

\* latest_checkpoint: None for an empty directory, else the last name of the
\* sorted list (every file of the directory ends with .ckpt).
latest_checkpoint(dir) ==
    IF dir = {} THEN None
    ELSE LET files == { f.name : f \in dir }
         IN  CHOOSE last \in files : \A g \in files : g = last \/ StrLess(g, last)

\* torch.save(state, ckpt_path): the file of that name is written or replaced.
save_checkpoint(dir, epoch, global_step) ==
    { f \in dir : f.name # ckpt_name(epoch, global_step) }
        \cup { [name |-> ckpt_name(epoch, global_step),
                epoch |-> epoch, global_step |-> global_step] }

\* load_checkpoint: the epoch and the step stored in the file.
load_checkpoint(dir, path) ==
    LET f == CHOOSE f0 \in dir : f0.name = path
    IN  [start_epoch |-> f.epoch, global_step |-> f.global_step]

NoCkpt == [dir |-> {}, last |-> <<0, 0>>, saves |-> 0]

\* (e1, s1) <= (e2, s2) in the order of the pairs.
PairLeq(p, q) == p[1] < q[1] \/ (p[1] = q[1] /\ p[2] <= q[2])

\* One call of save_checkpoint, its (epoch, global_step) not below the one of
\* the call before.
TrainSave ==
    /\ op = "train"
    /\ pc = "train"
    /\ ckpt.saves < MaxSaves
    /\ \E epoch \in 1..MaxEpoch, global_step \in 0..MaxStep :
         /\ PairLeq(ckpt.last, <<epoch, global_step>>)
         /\ ckpt' = [dir |-> save_checkpoint(ckpt.dir, epoch, global_step),
                     last |-> <<epoch, global_step>>,
                     saves |-> ckpt.saves + 1]
    /\ UNCHANGED <<op, pc, input, returned, batch>>
    /\ UNCHANGED solverVars
    /\ UNCHANGED removeVars
    /\ UNCHANGED decodeVars
    /\ UNCHANGED heapVars

\* train(resume=True) up to the first epoch: the latest checkpoint is looked
\* up and, when there is one, loaded.
TrainResume ==
    /\ op = "train"
    /\ pc = "train"
    /\ \E ckpt_path \in {latest_checkpoint(ckpt.dir)} :
         returned' = IF ckpt_path = None
                     THEN [kind |-> "resume", ckpt_path |-> None,
                           start_epoch |-> 0, global_step |-> 0]
                     ELSE [kind |-> "resume", ckpt_path |-> ckpt_path,
                           start_epoch |-> load_checkpoint(ckpt.dir, ckpt_path).start_epoch,
                           global_step |-> load_checkpoint(ckpt.dir, ckpt_path).global_step]
    /\ pc' = "resumed"
    /\ UNCHANGED <<op, input, batch, ckpt>>
    /\ UNCHANGED solverVars
    /\ UNCHANGED removeVars
    /\ UNCHANGED decodeVars
    /\ UNCHANGED heapVars

\* The classic puzzle with 30 clues, as a puzzle file holds it.
ClassicRows ==
    << <<5,3,0,0,7,0,0,0,0>>, <<6,0,0,1,9,5,0,0,0>>, <<0,9,8,0,0,0,0,6,0>>,
       <<8,0,0,0,6,0,0,0,3>>, <<4,0,0,8,0,3,0,0,1>>, <<7,0,0,0,2,0,0,0,6>>,
       <<0,6,0,0,0,0,2,8,0>>, <<0,0,0,4,1,9,0,0,5>>, <<0,0,0,0,8,0,0,7,9>> >>

ClassicPuzzle == [r \in Idx |-> [c \in Idx |-> ClassicRows[r + 1][c + 1]]]

InitSolve ==
    /\ ckpt = NoCkpt
    /\ batch = NoBatch
    /\ op = "solve"
    /\ input \in InputGrids \cup {ZeroBoard, ClassicPuzzle}
    /\ board = input
    /\ caller_board = input
    /\ row_ids = [caller |-> NewRows(0), work |-> NewRows(0), full |-> NoRows,
                  puzzle |-> NoRows, solution |-> NoRows]
    /\ pc = "call"
    /\ use_backtrack = TRUE

InitShuffled ==
    /\ ckpt = NoCkpt
    /\ batch = NoBatch
    /\ op = "shuffled"
    /\ input \in InputGrids
    /\ board = input
    /\ caller_board = input
    /\ row_ids = [caller |-> NewRows(0), work |-> NewRows(0), full |-> NoRows,
                  puzzle |-> NoRows, solution |-> NoRows]
    /\ pc = "call"
    /\ use_backtrack = TRUE

InitGenerate ==
    /\ ckpt = NoCkpt
    /\ batch = NoBatch
    /\ op = "generate"
    /\ input = ZeroBoard
    /\ board = input
    /\ caller_board = input
    /\ row_ids = [caller |-> NoRows, work |-> NewRows(0), full |-> NoRows,
                  puzzle |-> NoRows, solution |-> NoRows]
    /\ pc = "call"
    /\ use_backtrack = TRUE

InitPredict ==
    /\ ckpt = NoCkpt
    /\ batch = NoBatch
    /\ op = "predict"
    /\ input \in InputGrids
    /\ board = ZeroBoard
    /\ caller_board = input
    /\ row_ids = [caller |-> NewRows(0), work |-> NoRows, full |-> NoRows,
                  puzzle |-> NoRows, solution |-> NoRows]
    /\ pc = "start"
    /\ use_backtrack = TRUE

InitBatch ==
    /\ ckpt = NoCkpt
    /\ op = "batch"
    /\ input = ZeroBoard
    /\ board = ZeroBoard
    /\ caller_board = ZeroBoard
    /\ row_ids = [caller |-> NoRows, work |-> NoRows, full |-> NoRows,
                  puzzle |-> NoRows, solution |-> NoRows]
    /\ pc = "batch_start"
    /\ use_backtrack = TRUE
    /\ \E p0 \in BatchPuzzles, pX \in [Batch \ {0} -> OtherPuzzles],
          pY \in [Batch \ {0} -> OtherPuzzles] :
         batch = [t |-> 0,
                  X |-> batch_zeros([b \in Batch |->
                            board_to_tokens(IF b = 0 THEN p0 ELSE pX[b])]),
                  Y |-> batch_zeros([b \in Batch |->
                            board_to_tokens(IF b = 0 THEN p0 ELSE pY[b])])]

\* train.py with an empty checkpoint directory.
InitTrain ==
    /\ ckpt = NoCkpt
    /\ batch = NoBatch
    /\ op = "train"
    /\ input = ZeroBoard
    /\ board = ZeroBoard
    /\ caller_board = ZeroBoard
    /\ row_ids = [caller |-> NoRows, work |-> NoRows, full |-> NoRows,
                  puzzle |-> NoRows, solution |-> NoRows]
    /\ pc = "train"
    /\ use_backtrack = TRUE

\* The variables no entry point has touched yet.
InitFrame ==
    /\ src_tokens = [i \in 0..80 |-> 0]
    /\ t = 0
    /\ ys = <<>>
    /\ givens_row = NoDigits
    /\ givens_col = NoDigits
    /\ givens_box = NoDigits
    /\ pred_row = NoDigits
    /\ pred_col = NoDigits
    /\ pred_box = NoDigits
    /\ pred_board = [i \in 0..80 |-> 0]
    /\ full = ZeroBoard
    /\ puzzle = ZeroBoard
    /\ positions = <<>>
    /\ pos_i = 0
    /\ count = 0
    /\ removal_count = 0
    /\ stack = <<>>
    /\ sres = FALSE
    /\ retEntry = input
    /\ returned = [kind |-> "none"]

Init ==
    /\ (InitSolve \/ InitGenerate \/ InitPredict)
    /\ InitFrame

Next ==
    \/ SolveCallFull
    \/ SolveCallEmpty
    \/ SolvePlace
    \/ SolveExhausted
    \/ SolveRetTrue
    \/ SolveRetFalse
    \/ SolveFinish
    \/ GenerateFullReturn
    \/ RemoveStep
    \/ RemoveReturn
    \/ PredictStart
    \/ DecodeStep
    \/ PredictRepair
    \/ PredictRaw
    \/ PredictReturn

Spec == Init /\ [][Next]_vars

\* The constrained decoder alone: the puzzle is flattened and the 81
\* positions are decided.
DecodeInit == InitPredict /\ InitFrame

DecodeNext ==
    \/ PredictStart
    \/ DecodeStep

DecodeSpec == DecodeInit /\ [][DecodeNext]_vars

\* data_gen.solve_backtrack called on a grid of the input family.
ShuffledInit == InitShuffled /\ InitFrame

ShuffledNext ==
    \/ SolveCallFull
    \/ SolveCallEmpty
    \/ SolvePlace
    \/ SolveExhausted
    \/ SolveRetTrue
    \/ SolveRetFalse
    \/ ShuffledFinish

ShuffledSpec == ShuffledInit /\ [][ShuffledNext]_vars

\* Two batched calls of generate_with_constraints side by side.
BatchInit == InitBatch /\ InitFrame

BatchNext ==
    \/ BatchStart
    \/ BatchStep
    \/ BatchReturn

BatchSpec == BatchInit /\ [][BatchNext]_vars

\* Saves of checkpoints followed by a resume.
TrainInit == InitTrain /\ InitFrame

TrainNext ==
    \/ TrainSave
    \/ TrainResume

TrainSpec == TrainInit /\ [][TrainNext]_vars

(***************************************************************************)
(* Vocabulary of the properties, stated on cells and units and not through  *)
(* the operators of the program.                                            *)
(***************************************************************************)
At(b, q) == b[q[1]][q[2]]

\* Two cells share a row, a column or a 3x3 box.
SameUnit(p, q) ==
    \/ p[1] = q[1]
    \/ p[2] = q[2]
    \/ (p[1] \div 3 = q[1] \div 3 /\ p[2] \div 3 = q[2] \div 3)

ZeroCells(b) == { q \in Cells : At(b, q) = 0 }

Complete(b) == \A q \in Cells : At(b, q) # 0

\* No nonzero digit twice in a row, column or box.
NoDup(b) ==
    \A p \in Cells : At(b, p) # 0 =>
        \A q \in Cells : (q # p /\ SameUnit(p, q)) => At(b, q) # At(b, p)

\* b keeps every nonzero cell of g.
Agrees(b, g) == \A q \in Cells : At(g, q) # 0 => At(b, q) = At(g, q)

\* All fillings of the cells Z of g in which no filled cell repeats a digit
\* of its row, column or box.
RECURSIVE Fillings(_, _)
Fillings(g, Z) ==
    IF Z = {} THEN {g}
    ELSE LET z == CHOOSE z0 \in Z : TRUE
             free == { d \in Digits :
                         \A q \in Cells : SameUnit(z, q) => At(g, q) # d }
         IN  UNION { Fillings([g EXCEPT ![z[1]][z[2]] = d], Z \ {z}) : d \in free }

\* The complete valid grids that keep the nonzero cells of g.
Completions(g) == IF NoDup(g) THEN Fillings(g, ZeroCells(g)) ELSE {}

SolverPcs == {"call", "loop", "ret"}

(***************************************************************************)
(* Properties.                                                              *)
(***************************************************************************)

\* C1: when solve(grid) returns true, the grid has no zero cell, no digit
\* repeated in a row, column or box, and every cell that was nonzero at call
\* entry is unchanged -- for every grid with cells in 0..9.
C1_SolveTrueIsSolved ==
    (op = "solve" /\ pc = "done" /\ returned.value = TRUE) =>
        /\ Complete(board)
        /\ NoDup(board)
        /\ Agrees(board, input)

\* The same for grids whose clues do not conflict with each other.
SolveTrueIsSolvedOnConsistent ==
    (op = "solve" /\ pc = "done" /\ returned.value = TRUE /\ NoDup(input)) =>
        /\ Complete(board)
        /\ NoDup(board)
        /\ Agrees(board, input)

\* C2: solve(grid) returns true exactly when a complete valid grid keeping
\* the nonzero cells of the input exists, and then leaves one such grid.
\* (Stated on the inputs with a few blanks; the completions of the all-zero
\* grid and of the classic puzzle are not enumerated.)
C2_SolveIffCompletable ==
    (op = "solve" /\ pc = "done" /\ input \in InputGrids) =>
        /\ (returned.value = TRUE) <=> (Completions(input) # {})
        /\ (returned.value = TRUE) => board \in Completions(input)

\* The same for grids whose clues do not conflict with each other.
SolveIffCompletableOnConsistent ==
    (op = "solve" /\ pc = "done" /\ input \in InputGrids /\ NoDup(input)) =>
        /\ (returned.value = TRUE) <=> (Completions(input) # {})
        /\ (returned.value = TRUE) => board \in Completions(input)

\* C3: whenever a call of solve_backtrack, at any depth and with either digit
\* order, has just returned false, the grid equals the grid at the entry of
\* that call.
C3_FailedCallRestoresGrid ==
    (pc = "ret" /\ sres = FALSE) => board = retEntry

\* A nested call has returned false although a digit was valid at its cell:
\* it placed that digit, recursed, and reset the cell.
C3_Witness ==
    /\ pc = "ret"
    /\ sres = FALSE
    /\ stack # <<>>
    /\ find_empty(retEntry) # None
    /\ \E n \in Digits :
         is_valid(retEntry, find_empty(retEntry)[1], find_empty(retEntry)[2], n)

\* C4: a puzzle whose clues conflict is rejected as invalid input and the
\* solver is never started on it.
C4_ConflictingCluesRejected ==
    (op = "predict" /\ pc \in SolverPcs \cup {"done"}) =>
        \/ NoDup(input)
        \/ (pc = "done" /\ returned.kind = "invalid input")

\* C5: the pipeline with repair returns a complete valid grid for every
\* puzzle with consistent clues and a completion, whatever the scores, and
\* an explicit unsolved/invalid result in every other case.
C5_PipelineSolvesOrReports ==
    (op = "predict" /\ pc = "done" /\ use_backtrack) =>
        IF Completions(input) # {}
        THEN /\ returned.kind = "board"
             /\ Complete(returned.board)
             /\ NoDup(returned.board)
        ELSE returned.kind \in {"unsolved", "invalid input"}

\* C6: when the repair call of the solver returns false, the pipeline
\* reports that no completion was found and does not return the grid.
C6_FailedRepairReported ==
    (op = "predict" /\ pc = "done" /\ use_backtrack /\ sres = FALSE) =>
        returned.kind = "no completion found"

\* C7: every clue position of the final output holds the clue digit, and
\* when the repair solver returned true the final output has no digit
\* repeated in a row, column or box.
C7_CluesKeptAndRepairValid ==
    (op = "predict" /\ pc = "done") =>
        /\ returned.kind = "board"
        /\ Agrees(returned.board, input)
        /\ (use_backtrack /\ sres = TRUE) => NoDup(returned.board)

\* The clue part of C7 alone.
CluesKeptInOutput ==
    (op = "predict" /\ pc = "done") => Agrees(returned.board, input)

\* C8: is_valid(board, row, col, digit) is false exactly when digit occurs
\* in a cell of the row, of the column or of the box of (row, col): for
\* every cell and digit on the grids handed to solve, and for every digit at
\* the cell a running call is trying.
C8_IsValidIffAbsent ==
    /\ (op = "solve" /\ pc = "call" /\ stack = <<>>) =>
          \A r \in Idx, c \in Idx :
          \A D \in {{ At(board, q) : q \in { p \in Cells : SameUnit(<<r, c>>, p) } }} :
              \A n \in Digits : (~ is_valid(board, r, c, n)) <=> n \in D
    /\ (pc = "loop") =>
          \A D \in {{ At(board, q) : q \in { p \in Cells : SameUnit(<<Top.r, Top.c>>, p) } }} :
              \A n \in Digits : (~ is_valid(board, Top.r, Top.c, n)) <=> n \in D

\* A digit is refused at the cell being tried although neither the row nor
\* the column holds it: it is in the box.
C8_Witness ==
    /\ pc = "loop"
    /\ \E n \in Digits :
         /\ ~ is_valid(board, Top.r, Top.c, n)
         /\ \A x \in Idx : board[Top.r][x] # n /\ board[x][Top.c] # n

\* C9: the solver run on the all-zero grid, in ascending order and with the
\* shuffled digits of the generator, returns true and leaves a complete grid
\* without repeated digit; generate_full_board returns such a grid.
C9_ZeroGridSolved ==
    /\ (pc = "ret" /\ stack = <<>> /\ input = ZeroBoard) =>
          (sres = TRUE /\ Complete(board) /\ NoDup(board))
    /\ (op = "generate" /\ pc = "remove" /\ pos_i = 1) =>
          (Complete(full) /\ NoDup(full))

\* generate_full_board has returned a grid that a shuffle made start with
\* another digit than 1.
C9_Witness ==
    /\ op = "generate"
    /\ pc = "remove"
    /\ full[0][0] # 1
    /\ Complete(full)

NonZeroCount(b) == Cardinality({ q \in Cells : At(b, q) # 0 })

Min2(a, b) == IF a <= b THEN a ELSE b
Max2(a, b) == IF a >= b THEN a ELSE b

\* C10: remove_cells(full, k) returns a grid whose nonzero cells equal those
\* of full, with exactly min(k, 81) fewer nonzero cells, of which full is a
\* valid completion -- for every integer k.
C10_RemovesMinK81 ==
    (op = "generate" /\ pc = "done") =>
        /\ Agrees(full, returned.puzzle)
        /\ NonZeroCount(full) - NonZeroCount(returned.puzzle) = Min2(removal_count, 81)
        /\ Complete(full) /\ NoDup(full)

\* C10 as amended: the number of cells blanked is min(max(k, 0), 81).
C10_RemovesClampedK ==
    (op = "generate" /\ pc = "done") =>
        /\ Agrees(full, returned.puzzle)
        /\ NonZeroCount(full) - NonZeroCount(returned.puzzle)
              = Min2(Max2(removal_count, 0), 81)
        /\ Complete(full) /\ NoDup(full)

\* remove_cells was asked for more cells than the grid has and blanked all 81.
C10_Witness ==
    /\ op = "generate"
    /\ pc = "done"
    /\ removal_count > 81
    /\ NonZeroCount(returned.puzzle) = 0
    /\ Complete(full)

(***************************************************************************)
(* C11.  remove_cells works on a copy.  While remove_cells runs, no cell of *)
(* the full grid changes; and the pair generate_pair returns is a puzzle    *)
(* and a complete grid without a repeated digit that keeps every nonzero    *)
(* puzzle cell, equals the full grid, and has no row object in common with  *)
(* the puzzle.                                                              *)
(***************************************************************************)
RowsDisjoint(a_ids, b_ids) == \A r1 \in Idx : \A r2 \in Idx : a_ids[r1] # b_ids[r2]

C11_RemoveWorksOnCopy ==
    [][ /\ (pc = "remove" => full' = full)
        /\ (op = "generate" /\ pc' = "done" /\ pc # "done") =>
              /\ returned'.kind = "pair"
              /\ returned'.solution = full'
              /\ Complete(returned'.solution)
              /\ NoDup(returned'.solution)
              /\ Agrees(returned'.solution, returned'.puzzle)
              /\ RowsDisjoint(row_ids'.puzzle, row_ids'.solution)
              /\ RowsDisjoint(row_ids'.puzzle, row_ids'.full) ]_vars

C11_Witness ==
    /\ op = "generate"
    /\ pc = "done"
    /\ count = 2
    /\ ZeroCells(returned.puzzle) # {}
    /\ returned.solution = full
    /\ Complete(full)

(***************************************************************************)
(* C12.  Flattening a 9x9 grid row-major (index = row * 9 + col) and        *)
(* unflattening the 81 tokens gives back the grid, cell for cell.  Checked  *)
(* on the grids handed to an operation and returned by it (clue grids,      *)
(* solved and decoded grids, the puzzle after each removal) and on the      *)
(* tokens the decoder was given.                                            *)
(***************************************************************************)
RoundTrip(g) ==
    LET tokens == board_to_tokens(g)
    IN  /\ DOMAIN tokens = 0..80
        /\ \A r \in Idx : \A c \in Idx : tokens[r * 9 + c] = g[r][c]
        /\ tokens_to_board(tokens) = g

C12_FlattenRoundTrip ==
    /\ (pc \in {"start", "remove", "done"} \/ (pc = "call" /\ stack = <<>>)) =>
          (RoundTrip(board) /\ RoundTrip(puzzle))
    /\ (op = "predict" /\ pc # "start") =>
          /\ src_tokens = board_to_tokens(input)
          /\ tokens_to_board(src_tokens) = input

C12_Witness ==
    /\ op = "predict"
    /\ pc = "decode"
    /\ src_tokens[1] # src_tokens[9]
    /\ ZeroCells(input) # {}
    /\ tokens_to_board(src_tokens) = input

(***************************************************************************)
(* C13.  At every point of a decode and for every cell (row, col), the set  *)
(* of tokens _allowed_digits_for_cell allows is {clue} when the puzzle has  *)
(* a clue at the cell, and otherwise the digits 1..9 that are in none of    *)
(* the used sets of the cell's row, column and box (givens together with    *)
(* predictions); token 0 is never allowed.                                  *)
(***************************************************************************)
UsedRow(r) == { d \in Digits : givens_row[r][d] \/ pred_row[r][d] }

UsedCol(c) == { d \in Digits : givens_col[c][d] \/ pred_col[c][d] }

UsedBox(b) == { d \in Digits : givens_box[b][d] \/ pred_box[b][d] }

BoxOf(r, c) == 3 * (r \div 3) + (c \div 3)

\* The tokens the mask of cell (r, c) allows in the current state.
AllowedDigits(r, c) ==
    LET mask == masks_at(r, c)
    IN  { d \in Tokens : mask[d] = 1 }

C13_AllowedDigitsExact ==
    (op = "predict" /\ pc = "decode") =>
        \A q \in Cells :
            LET r == q[1]
                c == q[2]
                allowed == AllowedDigits(r, c)
            IN  /\ 0 \notin allowed
                /\ IF input[r][c] # 0
                   THEN allowed = {input[r][c]}
                   ELSE allowed = Digits \ (UsedRow(r) \cup UsedCol(c) \cup UsedBox(BoxOf(r, c)))

\* A blank cell under the cursor with two digits allowed, one digit of its
\* row already used by a prediction.
C13_Witness ==
    /\ op = "predict"
    /\ pc = "decode"
    /\ t < 81
    /\ input[idx_to_rc(t)[1]][idx_to_rc(t)[2]] = 0
    /\ Cardinality(AllowedDigits(idx_to_rc(t)[1], idx_to_rc(t)[2])) >= 2
    /\ \E d \in Digits : pred_row[idx_to_rc(t)[1]][d]
    /\ \E q \in Cells : input[q[1]][q[2]] # 0 /\ AllowedDigits(q[1], q[2]) = {input[q[1]][q[2]]}

(***************************************************************************)
(* C14.  At every step t of a decode, for every row, column and box, the    *)
(* tracked digits (givens tables together with prediction tables) are       *)
(* exactly the clue digits of the puzzle in that unit united with the       *)
(* nonzero digits committed at positions 0..t-1 in that unit; the tables    *)
(* never hold token 0.                                                      *)
(***************************************************************************)
\* Cells of the three kinds of unit.
RowCells(r) == { <<r, c>> : c \in Idx }

ColCells(c) == { <<r, c>> : r \in Idx }

BoxCells(b) == { <<3 * (b \div 3) + i, 3 * (b % 3) + j>> : i \in 0..2, j \in 0..2 }

ClueDigits(U) == { input[q[1]][q[2]] : q \in U } \ {0}

CommittedDigits(U) ==
    { pred_board[q[1] * 9 + q[2]] : q \in { q0 \in U : q0[1] * 9 + q0[2] < t } } \ {0}

C14_TrackerExact ==
    (op = "predict" /\ pc = "decode") =>
        \A u \in Idx :
            /\ UsedRow(u) = ClueDigits(RowCells(u)) \cup CommittedDigits(RowCells(u))
            /\ UsedCol(u) = ClueDigits(ColCells(u)) \cup CommittedDigits(ColCells(u))
            /\ UsedBox(u) = ClueDigits(BoxCells(u)) \cup CommittedDigits(BoxCells(u))
            /\ ~ givens_row[u][0] /\ ~ givens_col[u][0] /\ ~ givens_box[u][0]
            /\ ~ pred_row[u][0] /\ ~ pred_col[u][0] /\ ~ pred_box[u][0]

\* Past a blank cell that received a digit which no clue of its row holds.
C14_Witness ==
    /\ op = "predict"
    /\ pc = "decode"
    /\ \E q \in Cells :
          /\ q[1] * 9 + q[2] < t
          /\ input[q[1]][q[2]] = 0
          /\ pred_board[q[1] * 9 + q[2]] # 0
          /\ pred_board[q[1] * 9 + q[2]] \notin ClueDigits(RowCells(q[1]))
          /\ pred_board[q[1] * 9 + q[2]] \in UsedRow(q[1])

(***************************************************************************)
(* C15.  In every state of a search of solve_backtrack (entry of a call,    *)
(* inside the loop, after a return, at any depth), every cell that was      *)
(* nonzero when the outermost call started holds the value it held then.    *)
(***************************************************************************)
\* The grid at the start of the outermost call of the search in progress.
TopEntry ==
    IF stack # <<>> THEN stack[1].entry
    ELSE IF pc = "ret" THEN retEntry
    ELSE board

C15_CluesNeverOverwritten ==
    /\ pc \in SolverPcs => Agrees(board, TopEntry)
    /\ (op = "solve" /\ pc \in SolverPcs \cup {"done"}) => Agrees(board, input)

\* After a failed call two levels down, with clues on the grid and cells
\* filled by the search.
C15_Witness ==
    /\ op = "solve"
    /\ pc = "ret"
    /\ sres = FALSE
    /\ Len(stack) >= 2
    /\ \E q \in Cells : At(input, q) # 0
    /\ board # input
    /\ Agrees(board, input)

(***************************************************************************)
(* C16.  During one call of predict_with_model (constrained decoding, the   *)
(* clues written back, the repair by solve_backtrack) no cell of the grid   *)
(* the caller passed in changes: the decoded board has rows of its own, and *)
(* the caller's grid is cell for cell the same in every state up to and     *)
(* including the return.                                                    *)
(***************************************************************************)
C16_CallerPuzzleNeverWritten ==
    op = "predict" =>
        /\ caller_board = input
        /\ row_ids.work # NoRows => RowsDisjoint(row_ids.caller, row_ids.work)

\* Returned after a repair that filled blank cells of the working grid.
C16_Witness ==
    /\ op = "predict"
    /\ pc = "done"
    /\ use_backtrack
    /\ returned.kind = "board"
    /\ ZeroCells(input) # {}
    /\ ZeroCells(returned.board) = {}
    /\ caller_board = input

(***************************************************************************)
(* C17.  solve_backtrack (digits tried in ascending order) on the classic   *)
(* puzzle with first row 5 3 0 0 7 0 0 0 0 returns True and leaves a grid   *)
(* with first row 5 3 4 6 7 8 9 1 2 in which every clue is unchanged.       *)
(***************************************************************************)
C17_ClassicPuzzleSolved ==
    (op = "solve" /\ pc = "done" /\ input = ClassicPuzzle) =>
        /\ returned = [kind |-> "bool", value |-> TRUE]
        /\ board[0] = [c \in Idx |-> <<5, 3, 4, 6, 7, 8, 9, 1, 2>>[c + 1]]
        /\ Agrees(board, ClassicPuzzle)
        /\ Complete(board)
        /\ NoDup(board)

C17_Witness ==
    /\ op = "solve"
    /\ pc = "done"
    /\ input = ClassicPuzzle
    /\ input[0] = [c \in Idx |-> <<5, 3, 0, 0, 7, 0, 0, 0, 0>>[c + 1]]
    /\ returned.value = TRUE
    /\ board[0][2] = 4

\* digit occurs in a cell of the row, column or box of q other than q itself.
OccursElsewhere(b, q, n) ==
    \E p \in Cells : p # q /\ SameUnit(q, p) /\ At(b, p) = n

(***************************************************************************)
(* C18, as stated.  is_valid(board, row, col, digit) is true exactly when   *)
(* digit is in no cell other than (row, col) of the row, the column and the *)
(* box; in particular it is true when (row, col) is the only cell of those  *)
(* units that holds digit.  For every cell and digit on the grids handed to *)
(* solve, and for every digit at the cell a running call is trying.         *)
(***************************************************************************)
C18_ValidIffAbsentElsewhere ==
    /\ (op = "solve" /\ pc = "call" /\ stack = <<>>) =>
          \A q \in Cells, n \in Digits :
              is_valid(board, q[1], q[2], n) <=> ~ OccursElsewhere(board, q, n)
    /\ (pc = "loop") =>
          \A n \in Digits :
              is_valid(board, Top.r, Top.c, n) <=>
                  ~ OccursElsewhere(board, <<Top.r, Top.c>>, n)

(***************************************************************************)
(* C18, amended.  is_valid(board, row, col, digit) is true exactly when     *)
(* digit is in no other cell of the row, the column and the box and the     *)
(* cell (row, col) does not hold digit either; in particular it is false    *)
(* when (row, col) is the only cell of those units that holds digit, and    *)
(* for an empty cell it is true exactly when digit is nowhere else.         *)
(***************************************************************************)
C18_ValidIffAbsentElsewhereAndHere ==
    /\ (op = "solve" /\ pc = "call" /\ stack = <<>>) =>
          \A q \in Cells :
          \A E \in {{ At(board, p) : p \in { p0 \in Cells : p0 # q /\ SameUnit(q, p0) } }} :
          \A n \in Digits :
              /\ is_valid(board, q[1], q[2], n) <=> (At(board, q) # n /\ n \notin E)
              /\ (At(board, q) = n /\ n \notin E) => ~ is_valid(board, q[1], q[2], n)
              /\ At(board, q) = 0 => (is_valid(board, q[1], q[2], n) <=> n \notin E)
    /\ (pc = "loop") =>
          \A E \in {{ At(board, p) : p \in { p0 \in Cells : p0 # <<Top.r, Top.c>>
                                                      /\ SameUnit(<<Top.r, Top.c>>, p0) } }} :
              \A n \in Digits :
                  is_valid(board, Top.r, Top.c, n) <=>
                      (At(board, <<Top.r, Top.c>>) # n /\ n \notin E)

\* A grid handed to solve with a cell holding a digit that is nowhere else in
\* its row, column and box, and with an empty cell that accepts a digit.
C18_Witness ==
    /\ op = "solve"
    /\ pc = "call"
    /\ stack = <<>>
    /\ \E q \in Cells :
          /\ At(board, q) # 0
          /\ ~ OccursElsewhere(board, q, At(board, q))
          /\ ~ is_valid(board, q[1], q[2], At(board, q))
    /\ \E q \in Cells, n \in Digits :
          At(board, q) = 0 /\ is_valid(board, q[1], q[2], n)

(***************************************************************************)
(* C19.  At each decode position and for every score vector, the token      *)
(* committed is, when some digit is allowed, an allowed digit whose score   *)
(* no allowed digit exceeds and the lowest of the allowed digits with that  *)
(* score; it is then neither a digit outside the allowed set nor 0.  The    *)
(* token the last step appended to ys and wrote to pred_board is such a     *)
(* token for the digits that were allowed at its position.                  *)
(***************************************************************************)
\* v is what C19 lets the decoder commit under the scores sc with A allowed.
BestAllowed(v, sc, A) ==
    /\ v \in A
    /\ v # 0
    /\ \A d \in A : sc[d] <= sc[v]
    /\ \A d \in A : sc[d] = sc[v] => v <= d

\* The digits allowed at position i when it was decoded, from the clues and
\* the tokens committed before i.
CommittedBefore(U, i) ==
    { pred_board[q[1] * 9 + q[2]] : q \in { q0 \in U : q0[1] * 9 + q0[2] < i } } \ {0}

AllowedAt(i) ==
    LET r == i \div 9
        c == i % 9
        U == RowCells(r) \cup ColCells(c) \cup BoxCells(BoxOf(r, c))
    IN  Digits \ (ClueDigits(U) \cup CommittedBefore(U, i))

C19_CommitsBestAllowed ==
    (op = "predict" /\ pc = "decode") =>
        /\ t < 81 =>
              \A masks \in {masks_at(idx_to_rc(t)[1], idx_to_rc(t)[2])} :
              \A A \in {{ d \in Tokens : masks[d] = 1 }} :
                  A # {} =>
                    \A sc \in ScoreVectors :
                        \A v \in {pick(sc, masks)} : BestAllowed(v, sc, A)
        /\ t > 0 =>
              \A A \in {IF input[(t - 1) \div 9][(t - 1) % 9] # 0
                         THEN {input[(t - 1) \div 9][(t - 1) % 9]}
                         ELSE AllowedAt(t - 1)} :
                  /\ pred_board[t - 1] = ys[t + 1]
                  /\ A # {} => \E sc \in ScoreVectors : BestAllowed(pred_board[t - 1], sc, A)

\* A blank position was decoded with two digits allowed and received the
\* higher one: the scores decided, not the tie-break.
C19_Witness ==
    /\ op = "predict"
    /\ pc = "decode"
    /\ \E i \in 0..(t - 1) :
          /\ input[i \div 9][i % 9] = 0
          /\ pred_board[i] \in AllowedAt(i)
          /\ \E d \in AllowedAt(i) : d < pred_board[i]

(***************************************************************************)
(* C20.  A decode step at a blank position where no digit is allowed        *)
(* commits token 0 there (pred_board and ys), leaves the six tables as they *)
(* are and moves on to the next position; every decode reaches t = 81 with  *)
(* 81 tokens after the start token, and those are what is returned.         *)
(***************************************************************************)
C20_EmptyAllowedCommitsZero ==
    [][ /\ (op = "predict" /\ pc = "decode" /\ t < 81
              /\ input[idx_to_rc(t)[1]][idx_to_rc(t)[2]] = 0
              /\ AllowedDigits(idx_to_rc(t)[1], idx_to_rc(t)[2]) = {}) =>
                 /\ pred_board' = [pred_board EXCEPT ![t] = 0]
                 /\ ys' = Append(ys, 0)
                 /\ UNCHANGED <<givens_row, givens_col, givens_box,
                                pred_row, pred_col, pred_box>>
                 /\ t' = t + 1
                 /\ pc' = "decode"
        /\ (op = "predict" /\ pc = "decode" /\ t < 81) =>
                 (pc' = "decode" /\ t' = t + 1 /\ Len(ys') = t' + 1)
        /\ (op = "predict" /\ pc = "decode" /\ t = 81) =>
                 /\ Len(ys) = 82
                 /\ DOMAIN PredTokens = 0..80
                 /\ \A i \in 0..80 : PredTokens[i] = pred_board[i]
                 /\ pc' \in {"call", "done"}
                 /\ board' = Reassert(tokens_to_board(PredTokens), input)
                      \/ board' = tokens_to_board(PredTokens) ]_vars

\* A decode that is over and left a blank position at 0, no digit having
\* been allowed there.
C20_Witness ==
    /\ op = "predict"
    /\ pc = "decode"
    /\ t = 81
    /\ Len(ys) = 82
    /\ \E i \in 0..79 :
          /\ input[i \div 9][i % 9] = 0
          /\ AllowedAt(i) = {}
          /\ pred_board[i] = 0
          /\ pred_board[i + 1] # 0

(***************************************************************************)
(* C21.  Within one puzzle the positions are decided once each, in the      *)
(* order t = 0, 1, ..., 80, position t being the cell (t div 9, t mod 9):   *)
(* a step writes position t only, appends its token to ys and moves to      *)
(* t + 1.  The tables (hence the mask of position t + 1) hold the digit of  *)
(* position t as soon as the step is over, and the sequence handed to the   *)
(* logit source at any step is the start token followed by the tokens       *)
(* committed at positions 0..t-1, in that order.                            *)
(***************************************************************************)
C21_SequentialDecode ==
    [][ (op = "predict" /\ pc = "decode") =>
          /\ Len(ys) = t + 1
          /\ ys[1] = 0
          /\ \A i \in 0..80 : IF i < t THEN ys[i + 2] = pred_board[i] ELSE pred_board[i] = 0
          /\ t' # t =>
               /\ t < 81 /\ t' = t + 1
               /\ \A i \in 0..80 : i # t => pred_board'[i] = pred_board[i]
               /\ ys' = Append(ys, pred_board'[t])
               /\ input[t \div 9][t % 9] # 0 => pred_board'[t] = input[t \div 9][t % 9]
               /\ pred_board'[t] # 0 =>
                    /\ pred_row'[t \div 9][pred_board'[t]]
                    /\ pred_col'[t % 9][pred_board'[t]]
                    /\ pred_box'[BoxOf(t \div 9, t % 9)][pred_board'[t]]
                    /\ \A q \in RowCells(t \div 9) \cup ColCells(t % 9)
                                 \cup BoxCells(BoxOf(t \div 9, t % 9)) :
                          input[q[1]][q[2]] = 0 =>
                             pred_board'[t] \notin
                                { d \in Tokens :
                                    allowed_digits_for_cell(givens_row', givens_col', givens_box',
                                        pred_row', pred_col', pred_box',
                                        q[1], q[2], 0)[d] = 1 }
          /\ t' = t => pc' # "decode" \/ UNCHANGED vars ]_vars

\* The decode is past a blank position that received a digit, with the next
\* position blank as well and that digit no longer allowed there.
C21_Witness ==
    /\ op = "predict"
    /\ pc = "decode"
    /\ t \in 2..80
    /\ input[(t - 1) \div 9][(t - 1) % 9] = 0
    /\ input[t \div 9][t % 9] = 0
    /\ pred_board[t - 1] # 0
    /\ pred_board[t - 1] \notin AllowedDigits(t \div 9, t % 9)
    /\ ys[t + 1] = pred_board[t - 1]

(***************************************************************************)
(* C22.  Once the 81 positions are decided, the clue positions of the       *)
(* working grid hold the clues of the puzzle before the solver runs, the    *)
(* ascending solver is run on that grid, and the grid returned is never a   *)
(* complete grid with a digit repeated in a row, column or box.             *)
(***************************************************************************)
C22_ReassertThenRepair ==
    /\ (op = "predict" /\ pc = "call" /\ stack = <<>>) =>
          /\ board = Reassert(tokens_to_board(PredTokens), input)
          /\ Agrees(board, input)
    /\ (op = "predict" /\ pc = "done" /\ use_backtrack) =>
          /\ retEntry = Reassert(tokens_to_board(PredTokens), input)
          /\ Complete(returned.board) => NoDup(returned.board)

\* The same for puzzles whose clues do not conflict with each other.
ReassertThenRepairOnConsistent ==
    (op = "predict" /\ pc \in {"call", "done"} /\ NoDup(input)) => C22_ReassertThenRepair

\* The complete grid with 1 twice in row 0 comes back as it went in.
ConflictingGridReturnedAsSolved ==
    /\ op = "predict"
    /\ pc = "done"
    /\ use_backtrack
    /\ input = Punch({}, {<<0, 3, 1>>})
    /\ sres = TRUE
    /\ returned.board = input
    /\ Complete(returned.board)
    /\ ~ NoDup(returned.board)

(***************************************************************************)
(* C23.  At the entry of every call of the solver, find_empty gives the     *)
(* cell holding 0 with the smallest row-major index r * 9 + c, and None     *)
(* exactly when no cell holds 0; the call goes on with that cell (or        *)
(* returns True), and finding the cell changes no cell of the grid.         *)
(***************************************************************************)
C23_FindEmptyFirstRowMajor ==
    [][ pc = "call" =>
          /\ (find_empty(board) = None) <=> (ZeroCells(board) = {})
          /\ ZeroCells(board) # {} =>
                /\ find_empty(board) \in ZeroCells(board)
                /\ \A q \in ZeroCells(board) :
                      find_empty(board)[1] * 9 + find_empty(board)[2] <= q[1] * 9 + q[2]
          /\ board' = board
          /\ pc' = "loop" =>
                /\ ZeroCells(board) # {}
                /\ Len(stack') = Len(stack) + 1
                /\ \A q \in ZeroCells(board) :
                      stack'[Len(stack')].r * 9 + stack'[Len(stack')].c <= q[1] * 9 + q[2]
                /\ <<stack'[Len(stack')].r, stack'[Len(stack')].c>> \in ZeroCells(board)
          /\ pc' = "ret" => (ZeroCells(board) = {} /\ sres' = TRUE) ]_vars

\* A call found the first empty cell of a grid that has another empty cell
\* further down in a column to the left.
C23_Witness ==
    /\ pc = "loop"
    /\ At(Top.entry, <<Top.r, Top.c>>) = 0
    /\ \E q \in ZeroCells(Top.entry) : q[1] > Top.r /\ q[2] < Top.c
    /\ \A q \in ZeroCells(Top.entry) : Top.r * 9 + Top.c <= q[1] * 9 + q[2]

\* The part of the tensors of one call that belongs to batch element b.
Element(run, b) ==
    [src |-> run.src[b],
     givens_row |-> run.givens_row[b], givens_col |-> run.givens_col[b],
     givens_box |-> run.givens_box[b],
     pred_row |-> run.pred_row[b], pred_col |-> run.pred_col[b],
     pred_box |-> run.pred_box[b],
     pred_board |-> run.pred_board[b], ys |-> run.ys[b]]

\* C24: two batched calls that hold the same puzzle at element 0 and get the
\* same scores for element 0 keep the same tracker tables and committed digits
\* for element 0, compute the same mask for it at every step and return the
\* same tokens for it, whatever the puzzles of the other elements are.
C24_BatchElementIndependent ==
    (op = "batch") =>
        /\ Element(batch.X, 0) = Element(batch.Y, 0)
        /\ (pc = "batch_decode" /\ batch.t < 81) =>
              \A r \in {idx_to_rc(batch.t)[1]}, c \in {idx_to_rc(batch.t)[2]} :
                  batch_masks(batch.X, r, c)[0] = batch_masks(batch.Y, r, c)[0]
        /\ (pc = "batch_done") => returned.X[0] = returned.Y[0]

\* Two finished calls whose other element held different puzzles and came
\* back different, while element 0 had blanks with a choice and took 7 at (0,3).
C24_Witness ==
    /\ op = "batch"
    /\ pc = "batch_done"
    /\ batch.X.src[1] # batch.Y.src[1]
    /\ returned.X[1] # returned.Y[1]
    /\ batch.X.src[0][3] = 0
    /\ returned.X[0][3] = 7
    /\ returned.Y[0][3] = 7

\* The 27 units of the grid as sets of cells.
Units ==
    { { <<r, c>> : c \in Idx } : r \in Idx }
    \cup { { <<r, c>> : r \in Idx } : c \in Idx }
    \cup { { <<r, c>> \in Cells : (r \div 3) * 3 + (c \div 3) = b } : b \in Idx }

\* No nonzero digit twice in a unit of g: as many digits as filled cells.
NoRepeat(g) ==
    \A U \in Units :
        \A F \in {{ q \in U : At(g, q) # 0 }} :
            Cardinality({ At(g, q) : q \in F }) = Cardinality(F)

\* The clues of the puzzle, with the digits committed before position i laid
\* over them.
CluesAndCommitted(i) ==
    [r \in Idx |-> [c \in Idx |->
        IF r * 9 + c < i /\ pred_board[r * 9 + c] # 0
        THEN pred_board[r * 9 + c]
        ELSE input[r][c]]]

\* C25: when no digit is repeated among the clues, then after every decoding
\* step the grid made of all the clues, those at positions still to come
\* included, and of the digits committed so far repeats no nonzero digit in a
\* row, a column or a box.
C25_PartialGridConsistent ==
    (op = "predict" /\ pc = "decode") =>
        (NoRepeat(CluesAndCommitted(t)) \/ ~NoRepeat(input))

\* The decoding of a puzzle with four blanks and consistent clues is over, and
\* the first blank took the larger of its two allowed digits.
C25_Witness ==
    /\ op = "predict"
    /\ pc = "decode"
    /\ t = 81
    /\ NoRepeat(input)
    /\ Cardinality(ZeroCells(input)) = 4
    /\ input[0][3] = 0
    /\ pred_board[3] = 7
    /\ pred_board[4] = 6

(***************************************************************************)
(* A call of the exact solver alone: solve_backtrack(board) from a script,  *)
(* run to its return.  The interpreter executes the next statement as long  *)
(* as there is one, hence the weak fairness of the step relation.           *)
(***************************************************************************)
SolveInit == Init /\ op = "solve"

SolveNext ==
    \/ SolveCallFull
    \/ SolveCallEmpty
    \/ SolvePlace
    \/ SolveExhausted
    \/ SolveRetTrue
    \/ SolveRetFalse
    \/ SolveFinish

SolveSpec == SolveInit /\ [][SolveNext]_vars /\ WF_vars(SolveNext)

\* C26: every call of the exact solver returns: on every input grid, grids
\* with conflicting clues included, the call reaches its return with the
\* value true or false.
C26_SolveTerminates ==
    (op = "solve" /\ pc = "call" /\ stack = <<>>)
        ~> (pc = "done" /\ returned.kind = "bool" /\ returned.value \in BOOLEAN)

\* A call on a grid with conflicting clues and blanks has returned false
\* after placing and undoing digits.
C26_Witness ==
    /\ op = "solve"
    /\ pc = "done"
    /\ ~NoRepeat(input)
    /\ Cardinality(ZeroCells(input)) >= 3
    /\ \E n \in Digits : is_valid(input, find_empty(input)[1], find_empty(input)[2], n)
    /\ returned = [kind |-> "bool", value |-> FALSE]
    /\ board = input

\* a comes before b in the lexicographic order of the row-major tokens.
LexLess(a, b) ==
    \E i \in 0..80 :
        /\ board_to_tokens(a)[i] < board_to_tokens(b)[i]
        /\ \A j \in 0..(i - 1) : board_to_tokens(a)[j] = board_to_tokens(b)[j]

\* g is the first of the valid completions of the grid inp.
LeastCompletion(g, inp) ==
    \A S \in {Completions(inp)} :
        /\ g \in S
        /\ \A h \in S : h = g \/ LexLess(g, h)

\* C27: when the ascending solver returns true, the grid left in place is the
\* valid completion of the input that comes first in the lexicographic order
\* of the row-major tokens (and so is a function of the input alone).
\* (Stated on the inputs with a few blanks, as C2.)
C27_SolveLeastCompletion ==
    (op = "solve" /\ pc = "done" /\ input \in InputGrids /\ returned.value = TRUE) =>
        LeastCompletion(board, input)

\* The same for grids whose clues do not conflict with each other.
SolveLeastCompletionOnConsistent ==
    (op = "solve" /\ pc = "done" /\ input \in InputGrids /\ returned.value = TRUE) =>
        (NoRepeat(input) => LeastCompletion(board, input))

\* A grid with two valid completions was solved, and the first of the two is
\* in place.
LeastOfTwoCompletions ==
    /\ op = "solve"
    /\ pc = "done"
    /\ input \in InputGrids
    /\ returned.value = TRUE
    /\ Cardinality(Completions(input)) = 2
    /\ LeastCompletion(board, input)

\* True was returned on a complete grid with a repeated digit: the grid in
\* place is no valid completion.
TrueWithoutCompletion ==
    /\ op = "solve"
    /\ pc = "done"
    /\ input \in InputGrids
    /\ returned.value = TRUE
    /\ Complete(input)
    /\ input[0] = [c \in Idx |-> <<5, 3, 4, 1, 7, 8, 9, 1, 2>>[c + 1]]
    /\ Completions(input) = {}

\* C28: on every input grid and for every outcome of the shuffles, the
\* shuffled solver of the generator returns the boolean the ascending solver
\* returns on that grid, and when they return true both leave a complete grid
\* that keeps the nonzero cells of the input.
C28_ShuffledAgreesWithAscending ==
    (op = "shuffled" /\ pc = "done") =>
        \A asc \in {solve_rec(input)} :
            /\ returned.value = asc.ok
            /\ asc.ok =>
                  /\ Complete(board) /\ Agrees(board, input)
                  /\ Complete(asc.board) /\ Agrees(asc.board, input)

\* The function solve_rec and the stepwise solver of solver.py return the
\* same value and leave the same grid.
SolveRecIsAscendingSolver ==
    (op = "solve" /\ pc = "done" /\ input \in InputGrids) =>
        \A asc \in {solve_rec(input)} :
            returned.value = asc.ok /\ board = asc.board

\* The shuffled solver has returned true with a grid other than the one the
\* ascending solver leaves.
C28_Witness ==
    /\ op = "shuffled"
    /\ pc = "done"
    /\ returned.value = TRUE
    /\ solve_rec(input).ok
    /\ board # solve_rec(input).board
    /\ Cardinality(ZeroCells(input)) = 4

\* C29: at every clue position already decided the decoder has committed the
\* clue digit, for every puzzle (the scores of the model are finite); so,
\* once the 81 positions are decided, writing the clues over the decoded
\* board changes no cell, and the board handed to the solver is the decoded
\* board itself.
C29_ClueReassertionIsIdentity ==
    /\ (op = "predict" /\ pc = "decode") =>
          \A i \in 0..(t - 1) :
              src_tokens[i] > 0 => (pred_board[i] = src_tokens[i] /\ ys[i + 2] = src_tokens[i])
    /\ (op = "predict" /\ pc = "decode" /\ t = 81) =>
          Reassert(tokens_to_board(PredTokens), caller_board) = tokens_to_board(PredTokens)
    /\ (op = "predict" /\ pc = "call" /\ stack = <<>>) =>
          board = tokens_to_board(PredTokens)

\* The clues were written over the decoded board of a puzzle with blanks and
\* with a digit repeated among its clues.
C29_Witness ==
    /\ op = "predict"
    /\ pc = "call"
    /\ stack = <<>>
    /\ ~NoRepeat(input)
    /\ Cardinality(ZeroCells(input)) >= 2
    /\ board = Reassert(tokens_to_board(PredTokens), input)

\* C30: after any sequence of saves with non-decreasing (epoch, global_step),
\* latest_checkpoint is the file written by the save with the greatest
\* (epoch, global_step), and a resume continues from that epoch and step.
C30_LatestIsNewest ==
    /\ (op = "train" /\ ckpt.saves > 0) =>
          latest_checkpoint(ckpt.dir) = ckpt_name(ckpt.last[1], ckpt.last[2])
    /\ (op = "train" /\ pc = "resumed" /\ ckpt.saves > 0) =>
          /\ returned.start_epoch = ckpt.last[1]
          /\ returned.global_step = ckpt.last[2]

\* The same when all saved steps have the same number of decimal digits.
LatestIsNewestOnEqualWidth ==
    (op = "train" /\ ckpt.saves > 0
        /\ \A f \in ckpt.dir, g \in ckpt.dir : Len(f.name) = Len(g.name)) =>
            latest_checkpoint(ckpt.dir) = ckpt_name(ckpt.last[1], ckpt.last[2])

\* Steps 9 and 10 of epoch 1 were saved in this order, and the resume loaded
\* step 9.
ResumedFromOlderCheckpoint ==
    /\ op = "train"
    /\ pc = "resumed"
    /\ ckpt.last = <<1, 10>>
    /\ { <<f.epoch, f.global_step>> : f \in ckpt.dir } = { <<1, 9>>, <<1, 10>> }
    /\ returned.ckpt_path = ckpt_name(1, 9)
    /\ returned.global_step = 9

====
